---------------------------- MODULE Spec2Model ----------------------------
(***************************************************************************)
(* A model of emeter.py: the EMeter datagram decoder (header unpack, the   *)
(* channel walk, the measurement getters) and the __main__ loop that       *)
(* drives it, one received datagram per cycle.                             *)
(*                                                                         *)
(* A datagram is a sequence of bytes (0..255), indexed from 1; the code's  *)
(* 0-based offset o is the model's position o+1.  A Python exception is    *)
(* the value of exc, named by its type and the source line that raises it. *)
(***************************************************************************)
EXTENDS Integers, Sequences, FiniteSets, TLC

(***************************************************************************)
(* Class constants of EMeter.                                              *)
(***************************************************************************)
EMETER_HEADER_SIZE == 28
OBISTAG_SIZE == 4

CHNIDX == 0
VALIDX == 1
TYPEIDX == 2
TARIFFIDX == 3
VALUEIDX == 4

TYPE4 == 4
TYPE8 == 8

ALL_ACT_POWER_FROM_GRID == 1
ALL_ACT_POWER_TO_GRID == 2
PHASE1_ACT_PWR_FROM_GRID == 21
PHASE1_ACT_PWR_TO_GRID == 22
PHASE1_CURRENT == 31
PHASE1_VOLTAGE == 32
PHASE2_ACT_PWR_FROM_GRID == 41
PHASE2_ACT_PWR_TO_GRID == 42
PHASE2_CURRENT == 51
PHASE2_VOLTAGE == 52
PHASE3_ACT_PWR_FROM_GRID == 61
PHASE3_ACT_PWR_TO_GRID == 62
PHASE3_CURRENT == 71
PHASE3_VOLTAGE == 72

(***************************************************************************)
(* Exceptions, by type and raising line.                                   *)
(***************************************************************************)
NoExc == "none"
HeaderStructError == "struct.error@137"
TagStructError == "struct.error@161"
ValueStructError == "struct.error@172"
LookupIndexError == "IndexError@185"

None == "None"

(***************************************************************************)
(* struct.unpack_from, big-endian.                                         *)
(***************************************************************************)
\* The unsigned big-endian integer held by a sequence of bytes.
RECURSIVE BigEndian(_)
BigEndian(bs) ==
    IF bs = <<>> THEN 0
    ELSE 256 * BigEndian(SubSeq(bs, 1, Len(bs) - 1)) + bs[Len(bs)]

\* Whether size bytes are available in buf at 0-based offset.
Available(buf, offset, size) == Len(buf) - offset >= size

\* The size bytes of buf at 0-based offset.
BytesAt(buf, offset, size) == SubSeq(buf, offset + 1, offset + size)

\* struct.unpack_from(">I" / ">Q", buf, offset)[0]
UnpackValue(buf, offset, size) == BigEndian(BytesAt(buf, offset, size))

\* list(struct.unpack_from(">4B", buf, offset))
UnpackObisTag(buf, offset) == BytesAt(buf, offset, OBISTAG_SIZE)

(***************************************************************************)
(* EMeter.extract_all_channels: the loop, from a given offset and list.    *)
(* The result carries the list as left in self.cl, the local offset when   *)
(* the loop ended, how it ended and the exception raised, if any.          *)
(***************************************************************************)
\* Mutant: every value taken to be 4 bytes wide, whatever its type says.
RECURSIVE WalkFixedWidth(_, _, _)
WalkFixedWidth(buf, offset, cl) ==
    IF ~(offset < Len(buf))
    THEN [cl |-> cl, offset |-> offset, how |-> "exhausted", exc |-> NoExc]
    ELSE IF ~Available(buf, offset, OBISTAG_SIZE)
    THEN [cl |-> cl, offset |-> offset, how |-> "raise", exc |-> TagStructError]
    ELSE LET dat == UnpackObisTag(buf, offset)
             typ == dat[TYPEIDX + 1]
         IN  IF typ # TYPE8 /\ typ # TYPE4
             THEN [cl |-> cl, offset |-> offset, how |-> "break", exc |-> NoExc]
             ELSE IF ~Available(buf, offset + OBISTAG_SIZE, TYPE4)
             THEN [cl |-> cl, offset |-> offset, how |-> "raise",
                   exc |-> ValueStructError]
             ELSE WalkFixedWidth(buf, offset + OBISTAG_SIZE + TYPE4,
                       Append(cl, Append(dat,
                           UnpackValue(buf, offset + OBISTAG_SIZE, TYPE4))))

\* Mutant: an unknown type skips its 4-byte prefix and the loop goes on.
RECURSIVE WalkSkipUnknown(_, _, _)
WalkSkipUnknown(buf, offset, cl) ==
    IF ~(offset < Len(buf))
    THEN [cl |-> cl, offset |-> offset, how |-> "exhausted", exc |-> NoExc]
    ELSE IF ~Available(buf, offset, OBISTAG_SIZE)
    THEN [cl |-> cl, offset |-> offset, how |-> "raise", exc |-> TagStructError]
    ELSE LET dat == UnpackObisTag(buf, offset)
             typ == dat[TYPEIDX + 1]
         IN  IF typ # TYPE8 /\ typ # TYPE4
             THEN WalkSkipUnknown(buf, offset + OBISTAG_SIZE, cl)
             ELSE IF ~Available(buf, offset + OBISTAG_SIZE, typ)
             THEN [cl |-> cl, offset |-> offset, how |-> "raise",
                   exc |-> ValueStructError]
             ELSE WalkSkipUnknown(buf, offset + OBISTAG_SIZE + typ,
                       Append(cl, Append(dat,
                           UnpackValue(buf, offset + OBISTAG_SIZE, typ))))

\* Mutant: a value cut short by the end of the buffer ends the loop like an
\* unknown type does, with no exception.
RECURSIVE WalkSilentTruncation(_, _, _)
WalkSilentTruncation(buf, offset, cl) ==
    IF ~(offset < Len(buf))
    THEN [cl |-> cl, offset |-> offset, how |-> "exhausted", exc |-> NoExc]
    ELSE IF ~Available(buf, offset, OBISTAG_SIZE)
    THEN [cl |-> cl, offset |-> offset, how |-> "raise", exc |-> TagStructError]
    ELSE LET dat == UnpackObisTag(buf, offset)
             typ == dat[TYPEIDX + 1]
         IN  IF typ # TYPE8 /\ typ # TYPE4
             THEN [cl |-> cl, offset |-> offset, how |-> "break", exc |-> NoExc]
             ELSE IF ~Available(buf, offset + OBISTAG_SIZE, typ)
             THEN [cl |-> cl, offset |-> offset, how |-> "break", exc |-> NoExc]
             ELSE WalkSilentTruncation(buf, offset + OBISTAG_SIZE + typ,
                       Append(cl, Append(dat,
                           UnpackValue(buf, offset + OBISTAG_SIZE, typ))))

RECURSIVE Walk(_, _, _)
Walk(buf, offset, cl) ==
    IF ~(offset < Len(buf))
    THEN [cl |-> cl, offset |-> offset, how |-> "exhausted", exc |-> NoExc]
    ELSE IF ~Available(buf, offset, OBISTAG_SIZE)
    THEN [cl |-> cl, offset |-> offset, how |-> "raise", exc |-> TagStructError]
    ELSE LET dat == UnpackObisTag(buf, offset)
             typ == dat[TYPEIDX + 1]
         IN  IF typ # TYPE8 /\ typ # TYPE4
             THEN [cl |-> cl, offset |-> offset, how |-> "break", exc |-> NoExc]
             ELSE IF ~Available(buf, offset + OBISTAG_SIZE, typ)
             THEN [cl |-> cl, offset |-> offset, how |-> "raise",
                   exc |-> ValueStructError]
             ELSE Walk(buf, offset + OBISTAG_SIZE + typ,
                       Append(cl, Append(dat,
                           UnpackValue(buf, offset + OBISTAG_SIZE, typ))))

\* self.cl.clear(); offset = EMETER_HEADER_SIZE; the loop.
ExtractAllChannels(buf) == Walk(buf, EMETER_HEADER_SIZE, <<>>)


(***************************************************************************)
(* String formatting.  A Python str is the sequence of its characters'     *)
(* code points: "0A" is <<48, 65>>.                                        *)
(***************************************************************************)
\* ord() of the digit d of "{:X}" (upper TRUE) or of "\x.." and "{:d}".
DigitChar(d, upper) ==
    IF d < 10 THEN 48 + d ELSE IF upper THEN 55 + d ELSE 87 + d

\* The digits of n >= 0 in the given base, most significant first ("0" for 0).
RECURSIVE Digits(_, _, _)
Digits(n, base, upper) ==
    IF n < base THEN <<DigitChar(n, upper)>>
    ELSE Append(Digits(n \div base, base, upper), DigitChar(n % base, upper))

\* s padded on the left with "0" to at least width characters.
RECURSIVE ZeroPad(_, _)
ZeroPad(s, width) == IF Len(s) >= width THEN s ELSE ZeroPad(<<48>> \o s, width)

\* "{:04X}".format(n), "{:08X}".format(n)
FormatX(n, width) == ZeroPad(Digits(n, 16, TRUE), width)

\* "{:d}".format(n)
FormatD(n) == Digits(n, 10, FALSE)

\* The quote str(bytes) delimits with: " (34) when the bytes hold ' (39) and no ".
ReprQuote(bs) ==
    IF (\E i \in DOMAIN bs : bs[i] = 39) /\ ~(\E i \in DOMAIN bs : bs[i] = 34)
    THEN 34 ELSE 39

\* One byte as str(bytes) writes it: \\ \t \n \r \xhh, the quote escaped, or itself.
ReprByte(c, quote) ==
    IF c = quote \/ c = 92 THEN <<92, c>>
    ELSE IF c = 9 THEN <<92, 116>>
    ELSE IF c = 10 THEN <<92, 110>>
    ELSE IF c = 13 THEN <<92, 114>>
    ELSE IF c < 32 \/ c >= 127
    THEN <<92, 120, DigitChar(c \div 16, FALSE), DigitChar(c % 16, FALSE)>>
    ELSE <<c>>

RECURSIVE ReprBody(_, _)
ReprBody(bs, quote) ==
    IF bs = <<>> THEN <<>>
    ELSE ReprByte(Head(bs), quote) \o ReprBody(Tail(bs), quote)

\* str(h[0]) for a bytes object: b'...'
StrBytes(bs) ==
    LET quote == ReprQuote(bs)
    IN  <<98, quote>> \o ReprBody(bs, quote) \o <<quote>>

(***************************************************************************)
(* EMeter.get_header: the dict built from the unpacked header.             *)
(***************************************************************************)
EmptyDict == [k \in {} |-> None]

\* Mutant: the format ">4sHHHIHHHII", group and length having changed places.
UnpackHeaderMisordered(buf) ==
    <<BytesAt(buf, 0, 4),
      UnpackValue(buf, 4, 2),
      UnpackValue(buf, 6, 2),
      UnpackValue(buf, 10, 4),
      UnpackValue(buf, 8, 2),
      UnpackValue(buf, 14, 2),
      UnpackValue(buf, 16, 2),
      UnpackValue(buf, 18, 2),
      UnpackValue(buf, 20, 4),
      UnpackValue(buf, 24, 4)>>

\* struct.unpack_from(">4sHHIHHHHII", buf): the ten values, in order.
UnpackHeader(buf) ==
    <<BytesAt(buf, 0, 4),
      UnpackValue(buf, 4, 2),
      UnpackValue(buf, 6, 2),
      UnpackValue(buf, 8, 4),
      UnpackValue(buf, 12, 2),
      UnpackValue(buf, 14, 2),
      UnpackValue(buf, 16, 2),
      UnpackValue(buf, 18, 2),
      UnpackValue(buf, 20, 4),
      UnpackValue(buf, 24, 4)>>

\* The header dict of a buffer of at least EMETER_HEADER_SIZE bytes.
HeaderDict(buf) ==
    LET h == UnpackHeader(buf)
    IN  ("ID"      :> StrBytes(h[1])) @@
        ("4"       :> FormatX(h[2], 4)) @@
        ("TAG"     :> FormatX(h[3], 4)) @@
        ("GROUP"   :> FormatX(h[4], 8)) @@
        ("LENGTH"  :> h[5]) @@
        ("SMANET2" :> FormatX(h[6], 4)) @@
        ("PROTID"  :> FormatX(h[7], 4)) @@
        ("SUSY"    :> FormatD(h[8])) @@
        ("SERNO"   :> FormatD(h[9])) @@
        ("TICKER"  :> h[10])

\* get_header on buf: the dict left in self.header and the exception raised.
GetHeader(buf) ==
    IF Available(buf, 0, EMETER_HEADER_SIZE)
    THEN [header |-> HeaderDict(buf), exc |-> NoExc]
    ELSE [header |-> EmptyDict, exc |-> HeaderStructError]

(***************************************************************************)
(* EMeter.helper_extract_act_values and the getters.  A call's result is   *)
(* [ret |-> the value returned, exc |-> the exception raised].             *)
(***************************************************************************)
\* [v[VALUEIDX] for v in cl if v[TYPEIDX] == TYPE4 and v[VALIDX] == idx]
FilteredValues(c, idx) ==
    LET hit(v) == v[TYPEIDX + 1] = TYPE4 /\ v[VALIDX + 1] = idx
        sel == SelectSeq(c, hit)
    IN  [i \in 1..Len(sel) |-> sel[i][VALUEIDX + 1]]

\* Mutant: the last match ([-1]) instead of the first.
helper_extract_last(c, idx) ==
    LET vals == FilteredValues(c, idx)
    IN  IF Len(vals) = 0
        THEN [ret |-> None, exc |-> LookupIndexError]
        ELSE [ret |-> vals[Len(vals)], exc |-> NoExc]

\* ...[0]: the first of them, or IndexError when there is none.
helper_extract_act_values(c, idx) ==
    LET vals == FilteredValues(c, idx)
    IN  IF Len(vals) = 0
        THEN [ret |-> None, exc |-> LookupIndexError]
        ELSE [ret |-> vals[1], exc |-> NoExc]

\* Mutant: the quotient rounded to the nearest integer instead of cut.
ScaledRounded(unit, r, divisor) ==
    IF r.exc # NoExc THEN r
    ELSE [ret |-> <<unit, (r.ret + divisor \div 2) \div divisor>>, exc |-> NoExc]

\* (unit, helper_extract_act_values(idx) // divisor)
Scaled(unit, r, divisor) ==
    IF r.exc # NoExc THEN r
    ELSE [ret |-> <<unit, r.ret \div divisor>>, exc |-> NoExc]

get_act_pwr_all_from_grid(c) ==
    Scaled("W", helper_extract_act_values(c, ALL_ACT_POWER_FROM_GRID), 10)

get_act_pwr_all_to_grid(c) ==
    Scaled("W", helper_extract_act_values(c, ALL_ACT_POWER_TO_GRID), 10)

get_act_pwr_phase1_from_grid(c) ==
    Scaled("W", helper_extract_act_values(c, PHASE1_ACT_PWR_FROM_GRID), 10)

get_act_pwr_phase1_to_grid(c) ==
    Scaled("W", helper_extract_act_values(c, PHASE1_ACT_PWR_TO_GRID), 10)

get_act_pwr_phase2_from_grid(c) ==
    Scaled("W", helper_extract_act_values(c, PHASE2_ACT_PWR_FROM_GRID), 10)

get_act_pwr_phase2_to_grid(c) ==
    Scaled("W", helper_extract_act_values(c, PHASE2_ACT_PWR_TO_GRID), 10)

get_act_pwr_phase3_from_grid(c) ==
    Scaled("W", helper_extract_act_values(c, PHASE3_ACT_PWR_FROM_GRID), 10)

get_act_pwr_phase3_to_grid(c) ==
    Scaled("W", helper_extract_act_values(c, PHASE3_ACT_PWR_TO_GRID), 10)

get_act_pwr_phase1_current(c) ==
    Scaled("A", helper_extract_act_values(c, PHASE1_CURRENT), 1000)

get_act_pwr_phase1_voltage(c) ==
    Scaled("V", helper_extract_act_values(c, PHASE1_VOLTAGE), 1000)

get_act_pwr_phase2_current(c) ==
    Scaled("A", helper_extract_act_values(c, PHASE2_CURRENT), 1000)

get_act_pwr_phase2_voltage(c) ==
    Scaled("V", helper_extract_act_values(c, PHASE2_VOLTAGE), 1000)

get_act_pwr_phase3_current(c) ==
    Scaled("A", helper_extract_act_values(c, PHASE3_CURRENT), 1000)

get_act_pwr_phase3_voltage(c) ==
    Scaled("V", helper_extract_act_values(c, PHASE3_VOLTAGE), 1000)

\* The i-th getter call of the "---MEASUREMENT VALUES:" block of __main__.
ReportCall(i, c) ==
    CASE i = 1  -> get_act_pwr_all_from_grid(c)
      [] i = 2  -> get_act_pwr_phase1_from_grid(c)
      [] i = 3  -> get_act_pwr_phase2_from_grid(c)
      [] i = 4  -> get_act_pwr_phase3_from_grid(c)
      [] i = 5  -> get_act_pwr_all_to_grid(c)
      [] i = 6  -> get_act_pwr_phase1_to_grid(c)
      [] i = 7  -> get_act_pwr_phase2_to_grid(c)
      [] i = 8  -> get_act_pwr_phase3_to_grid(c)
      [] i = 9  -> get_act_pwr_phase1_voltage(c)
      [] i = 10 -> get_act_pwr_phase1_current(c)
      [] i = 11 -> get_act_pwr_phase2_voltage(c)
      [] i = 12 -> get_act_pwr_phase2_current(c)
      [] i = 13 -> get_act_pwr_phase3_voltage(c)
      [] i = 14 -> get_act_pwr_phase3_current(c)

\* The measurement index the i-th call of the block looks up.
ReportIndex ==
    <<ALL_ACT_POWER_FROM_GRID, PHASE1_ACT_PWR_FROM_GRID, PHASE2_ACT_PWR_FROM_GRID,
      PHASE3_ACT_PWR_FROM_GRID, ALL_ACT_POWER_TO_GRID, PHASE1_ACT_PWR_TO_GRID,
      PHASE2_ACT_PWR_TO_GRID, PHASE3_ACT_PWR_TO_GRID, PHASE1_VOLTAGE,
      PHASE1_CURRENT, PHASE2_VOLTAGE, PHASE2_CURRENT, PHASE3_VOLTAGE,
      PHASE3_CURRENT>>

\* The number of getter calls in that block.
ReportCalls == Len(ReportIndex)

(***************************************************************************)
(* EMeter.get_javascript: the chn dict, built entry by entry.              *)
(***************************************************************************)
\* The keys of chn and the index each looks up, in the order of the literal.
ChnKeys == <<"chn1", "chn21", "chn41", "chn61", "chn2", "chn22", "chn42", "chn62">>

ChnIndex ==
    <<ALL_ACT_POWER_FROM_GRID, PHASE1_ACT_PWR_FROM_GRID, PHASE2_ACT_PWR_FROM_GRID,
      PHASE3_ACT_PWR_FROM_GRID, ALL_ACT_POWER_TO_GRID, PHASE1_ACT_PWR_TO_GRID,
      PHASE2_ACT_PWR_TO_GRID, PHASE3_ACT_PWR_TO_GRID>>

\* The chn dict, or IndexError from the first entry that has no record.
ChnDict(c) ==
    IF \E i \in DOMAIN ChnIndex : helper_extract_act_values(c, ChnIndex[i]).exc # NoExc
    THEN [ret |-> None, exc |-> LookupIndexError]
    ELSE [ret |-> [k \in {ChnKeys[i] : i \in DOMAIN ChnKeys} |->
                     LET i == CHOOSE j \in DOMAIN ChnKeys : ChnKeys[j] = k
                     IN  <<"dW", helper_extract_act_values(c, ChnIndex[i]).ret>>],
          exc |-> NoExc]

\* dict.update: the entries of d, with those of e added or replacing them.
DictUpdate(d, e) ==
    [k \in DOMAIN d \cup DOMAIN e |-> IF k \in DOMAIN e THEN e[k] ELSE d[k]]

(***************************************************************************)
(* The datagrams UDPReceiver.receive delivers.  A datagram is described by *)
(* what the sender put on the wire: the header bytes, the well-formed      *)
(* records, and what follows the last of them.  Values stay below 2^31,    *)
(* the range of TLC's integers.                                            *)
(***************************************************************************)
MaxRecs == 3

\* struct.pack, big-endian: the meter's side of ">I" and ">Q".
RECURSIVE Pack(_, _)
Pack(n, size) ==
    IF size = 0 THEN <<>> ELSE Append(Pack(n \div 256, size - 1), n % 256)

\* A record <<channel, index, type, tariff, value>> as its bytes.
RecordBytes(r) == <<r[1], r[2], r[3], r[4]>> \o Pack(r[5], r[3])

RECURSIVE RecordsBytes(_)
RecordsBytes(recs) ==
    IF recs = <<>> THEN <<>>
    ELSE RecordBytes(Head(recs)) \o RecordsBytes(Tail(recs))

\* "SMA\0", 0004, tag 02A0, group 1, length 0244, SMANET2 0010, protocol 6069,
\* susy 349, serial number 1234567, ticker 42.
BaseHeader ==
    <<83, 77, 65, 0,  0, 4,  2, 160,  0, 0, 0, 1,  2, 68,  0, 16,
      96, 105,  1, 93,  0, 18, 214, 135,  0, 0, 0, 42>>

\* The records short datagrams are built from: index 1 twice with different
\* values, index 1 as an 8-byte counter, and index 32.
SomeRecords ==
    { <<1, 1, 4, 0, 15000>>,
      <<1, 1, 4, 0, 7>>,
      <<1, 1, 8, 0, 16777221>>,
      <<1, 32, 4, 0, 230125>> }

\* A meter's complete list: every measurement index, with two energy counters.
FullRecords ==
    << <<0, 1, 4, 0, 15000>>,  <<0, 1, 8, 0, 2000000007>>,
       <<0, 2, 4, 0, 3000>>,   <<0, 2, 8, 0, 12>>,
       <<0, 21, 4, 0, 5009>>,  <<0, 22, 4, 0, 0>>,
       <<0, 31, 4, 0, 21739>>, <<0, 32, 4, 0, 230125>>,
       <<0, 41, 4, 0, 4999>>,  <<0, 42, 4, 0, 10>>,
       <<0, 51, 4, 0, 999>>,   <<0, 52, 4, 0, 229999>>,
       <<0, 61, 4, 0, 4992>>,  <<0, 62, 4, 0, 2990>>,
       <<0, 71, 4, 0, 1000>>,  <<0, 72, 4, 0, 231000>> >>

\* What may precede the complete list in a datagram.
FullPrefixes ==
    { <<>>,
      << <<1, 1, 4, 0, 7>> >>,
      << <<1, 1, 8, 0, 16777221>> >>,
      << <<1, 32, 8, 0, 5>> >> }

\* What follows the last well-formed record.
NoTrailer == [kind |-> "none", bytes |-> <<>>]

Trailers ==
    { NoTrailer,
      [kind |-> "short", bytes |-> <<0>>],
      [kind |-> "short", bytes |-> <<1, 1>>],
      [kind |-> "short", bytes |-> <<1, 1, 4>>],
      [kind |-> "badtype", bytes |-> <<0, 0, 0, 0>>],
      [kind |-> "badtype", bytes |-> <<1, 1, 0, 0, 1, 1, 4, 0, 0, 0, 0, 99>>],
      [kind |-> "badtype", bytes |-> <<144, 0, 0, 0, 2, 0>>],
      [kind |-> "truncated", bytes |-> <<1, 1, 4, 0>>],
      [kind |-> "truncated", bytes |-> <<1, 1, 4, 0, 0, 0, 58>>],
      [kind |-> "truncated", bytes |-> <<1, 1, 8, 0, 0, 0, 58, 152>>],
      [kind |-> "truncated", bytes |-> <<1, 1, 8, 0, 0, 0, 0, 0, 0, 0, 58>>] }

\* The lengths of the datagrams shorter than the header.
ShortLens == {0, 1, 27}

SeqsUpTo(S, n) == UNION { [1..k -> S] : k \in 0..n }

Wires ==
    { [header |-> SubSeq(BaseHeader, 1, n), recs |-> <<>>, trailer |-> NoTrailer] :
        n \in ShortLens }
    \cup
    { [header |-> BaseHeader, recs |-> r, trailer |-> t] :
        r \in SeqsUpTo(SomeRecords, MaxRecs)
                \cup { pre \o FullRecords : pre \in FullPrefixes },
        t \in Trailers }

\* The bytes of the datagram.
WireBytes(w) ==
    w.header \o RecordsBytes(w.recs) \o w.trailer.bytes

(***************************************************************************)
(* The state: the EMeter instance em, the options, and the position of     *)
(* __main__ in its loop.                                                   *)
(***************************************************************************)
VARIABLES
    emdat,          \* em.emdat (<<>> for None, before the first update)
    cl,             \* em.cl
    header,         \* em.header
    js_is_header,   \* whether em.js is the dict em.header (js = get_header())
    opt_js,         \* options.js
    pc,             \* "receive", "get_header", "extract", "report", "crashed"
    step,           \* the getter call of the report block that is next
    exc,            \* the exception that ended the process
    ret,            \* what the last getter call returned (<<>> for none)
    offset,         \* extract_all_channels' local offset when it last ended
    wire            \* what the meter sent as the current datagram

vars == <<emdat, cl, header, js_is_header, opt_js, pc, step, exc, ret, offset, wire>>

\* em.js: its own empty dict, or the header dict.
Js == IF js_is_header THEN header ELSE EmptyDict

Init ==
    /\ emdat = <<>>
    /\ cl = <<>>
    /\ header = EmptyDict
    /\ js_is_header = FALSE
    /\ opt_js \in BOOLEAN
    /\ pc = "receive"
    /\ step = 0
    /\ exc = NoExc
    /\ ret = <<>>
    /\ offset = 0
    /\ wire = [header |-> <<>>, recs |-> <<>>, trailer |-> NoTrailer]

\* data, addr = udp_recv.receive(); em.update(data)
update(w) ==
    /\ pc = "receive"
    /\ emdat' = WireBytes(w)
    /\ wire' = w
    /\ pc' = "get_header"
    /\ ret' = <<>>
    /\ UNCHANGED <<cl, header, js_is_header, opt_js, step, exc, offset>>

\* h = em.get_header()
get_header ==
    /\ pc = "get_header"
    /\ LET r == GetHeader(emdat)
       IN  /\ header' = r.header
           /\ exc' = r.exc
           /\ pc' = IF r.exc = NoExc THEN "extract" ELSE "crashed"
    /\ UNCHANGED <<emdat, cl, js_is_header, opt_js, step, ret, offset, wire>>

\* em.extract_all_channels()
extract_all_channels ==
    /\ pc = "extract"
    /\ LET r == ExtractAllChannels(emdat)
       IN  /\ cl' = r.cl
           /\ offset' = r.offset
           /\ exc' = r.exc
           /\ pc' = IF r.exc = NoExc THEN "report" ELSE "crashed"
    /\ step' = 1
    /\ UNCHANGED <<emdat, header, js_is_header, opt_js, ret, wire>>

\* One print of the "---MEASUREMENT VALUES:" block: its getter call.
report ==
    /\ pc = "report"
    /\ ~opt_js
    /\ LET r == ReportCall(step, cl)
       IN  /\ ret' = IF r.exc = NoExc THEN r.ret ELSE <<>>
           /\ exc' = r.exc
           /\ pc' = IF r.exc # NoExc THEN "crashed"
                    ELSE IF step = ReportCalls THEN "receive" ELSE "report"
           /\ step' = IF r.exc = NoExc /\ step < ReportCalls THEN step + 1 ELSE step
    /\ UNCHANGED <<emdat, cl, header, js_is_header, opt_js, offset, wire>>

\* js = em.get_javascript() and the prints of the else branch.
get_javascript ==
    /\ pc = "report"
    /\ opt_js
    /\ LET h == GetHeader(emdat)
           x == ExtractAllChannels(emdat)
           c == ChnDict(x.cl)
       IN  IF h.exc # NoExc
           THEN /\ header' = h.header
                /\ exc' = h.exc
                /\ pc' = "crashed"
                /\ UNCHANGED <<cl, offset, js_is_header>>
           ELSE /\ js_is_header' = TRUE
                /\ cl' = x.cl
                /\ offset' = x.offset
                /\ IF x.exc # NoExc
                   THEN /\ header' = h.header
                        /\ exc' = x.exc
                        /\ pc' = "crashed"
                   ELSE IF c.exc # NoExc
                   THEN /\ header' = h.header
                        /\ exc' = c.exc
                        /\ pc' = "crashed"
                   ELSE /\ header' = DictUpdate(h.header, c.ret)
                        /\ exc' = NoExc
                        /\ pc' = "receive"
    /\ UNCHANGED <<emdat, opt_js, step, ret, wire>>

Next ==
    \/ \E w \in Wires : update(w)
    \/ get_header
    \/ extract_all_channels
    \/ report
    \/ get_javascript

Spec == Init /\ [][Next]_vars

(***************************************************************************)
(* The same loop fed with datagrams that are a header alone, the header    *)
(* varying in its identifier and in one further byte.  The top byte of a   *)
(* 32-bit field stays below 128 (TLC's integers end at 2^31 - 1).          *)
(***************************************************************************)
\* Identifiers: plain, with NUL, quotes of either kind, a backslash, control
\* characters, DEL and bytes above 127.
IdChoices ==
    { <<83, 77, 65, 0>>, <<83, 77, 65, 39>>, <<34, 77, 65, 39>>,
      <<34, 34, 92, 120>>, <<92, 120, 48, 48>>, <<9, 10, 13, 127>>,
      <<255, 128, 31, 32>>, <<126, 39, 39, 92>> }

\* The 0-based offsets of the top bytes of group, serno and ticker.
TopByteOffsets == {8, 20, 24}

ByteChoices(off) ==
    IF off \in TopByteOffsets THEN {0, 1, 127} ELSE {0, 1, 127, 128, 255}

Headers ==
    { [i \in 1..EMETER_HEADER_SIZE |->
         IF i <= 4 THEN id[i] ELSE IF i = off + 1 THEN b ELSE BaseHeader[i]] :
      id \in IdChoices,
      <<off, b>> \in { <<off, b>> \in (4..(EMETER_HEADER_SIZE - 1)) \X {0, 1, 127, 128, 255} :
                         b \in ByteChoices(off) } }

HeaderWires == { [header |-> h, recs |-> <<>>, trailer |-> NoTrailer] : h \in Headers }

NextHeader ==
    \/ \E w \in HeaderWires : update(w)
    \/ get_header
    \/ extract_all_channels
    \/ report
    \/ get_javascript

SpecHeader == Init /\ [][NextHeader]_vars

(***************************************************************************)
(* Properties.                                                             *)
(***************************************************************************)
WalkErrors == {TagStructError, ValueStructError}

\* extract_all_channels has run on the current datagram (and returned or raised).
Walked ==
    \/ pc = "report"
    \/ pc = "crashed" /\ exc # HeaderStructError
    \/ pc = "receive" /\ emdat # <<>>

\* The bytes the records of a datagram take: the sum of 4 + width.
RECURSIVE RecordsSize(_)
RecordsSize(recs) ==
    IF recs = <<>> THEN 0 ELSE 4 + Head(recs)[3] + RecordsSize(Tail(recs))

IsPrefix(s, t) == Len(s) <= Len(t) /\ s = SubSeq(t, 1, Len(s))

\* The positions of the records of recs with valueType 4 and measurementIndex idx.
Type4Positions(recs, idx) ==
    { i \in DOMAIN recs : recs[i][3] = 4 /\ recs[i][2] = idx }

\* The raw value of the first of them.
FirstType4Value(recs, idx) ==
    LET first == CHOOSE i \in Type4Positions(recs, idx) :
                    \A j \in Type4Positions(recs, idx) : i <= j
    IN  recs[first][5]

\* C1: when the bytes after the header are exactly N well-formed records, the
\* walk leaves exactly those N records, in datagram order, and ends at offset
\* 28 + the sum of (4 + width) over them.
C1_WellFormedWalk ==
    (Walked /\ wire.trailer.kind = "none")
        => /\ cl = wire.recs
           /\ offset = 28 + RecordsSize(wire.recs)
           /\ exc \notin WalkErrors

C1_Witness ==
    /\ pc = "report"
    /\ wire.trailer.kind = "none"
    /\ Len(cl) = 2
    /\ cl[1][3] = 8
    /\ cl[2][3] = 4
    /\ cl[1][2] = cl[2][2]
    /\ offset = 48

\* C2: a prefix whose valueType is neither 4 nor 8 stops the walk at that entry
\* without an error; the records are those decoded before it, and nothing
\* after the prefix becomes a record.
C2_UnknownTypeStops ==
    (Walked /\ wire.trailer.kind = "badtype")
        => /\ exc \notin WalkErrors
           /\ cl = wire.recs
           /\ offset = 28 + RecordsSize(wire.recs)

C2_Witness ==
    /\ pc = "report"
    /\ wire.trailer.kind = "badtype"
    /\ Len(wire.trailer.bytes) = 12
    /\ Len(cl) = 2

\* C3: with 1, 2 or 3 bytes left at the start of a step the walk ends normally:
\* no error, and the records collected so far are the result.
C3_ShortTailEndsNormally ==
    (Walked /\ wire.trailer.kind = "short")
        => /\ exc \notin WalkErrors
           /\ cl = wire.recs

\* C4: a prefix of valueType 4 or 8 with fewer value bytes left makes the walk
\* fail, and the records collected before that entry, and only those, are what
\* it leaves.
C4_TruncatedValueFails ==
    (Walked /\ wire.trailer.kind = "truncated")
        => /\ exc = ValueStructError
           /\ cl = wire.recs
           /\ offset = 28 + RecordsSize(wire.recs)

C4_Witness ==
    /\ pc = "crashed"
    /\ exc = ValueStructError
    /\ wire.trailer.bytes = <<1, 1, 8, 0, 0, 0, 0, 0, 0, 0, 58>>
    /\ Len(cl) = 2

\* C5: for a buffer shorter than 28 bytes header decoding fails as a reported
\* decode failure, not a crash, and the walk does not run for that buffer.
C5_ShortBufferReported ==
    (Len(emdat) < 28 /\ pc \notin {"receive", "get_header"})
        => /\ pc # "crashed"
           /\ ~Walked

\* C6: a lookup that finds no record of valueType 4 with the requested index
\* fails with a reported result; it never ends the process on an unhandled
\* out-of-bounds access.
C6_NotFoundReported ==
    (Walked /\ \E i \in DOMAIN ReportIndex : Type4Positions(cl, ReportIndex[i]) = {})
        => ~(pc = "crashed" /\ exc = LookupIndexError)

\* C7: a lookup returns the raw value of the first record, in datagram order,
\* whose valueType is 4 and whose measurementIndex is the requested one: later
\* matches and valueType 8 records are never returned.  (The raw values of a
\* datagram are what get_javascript leaves under the chn keys.)
C7_FirstType4Match ==
    (opt_js /\ pc = "receive" /\ js_is_header)
        => \A i \in DOMAIN ChnKeys :
              header[ChnKeys[i]] = <<"dW", FirstType4Value(wire.recs, ChnIndex[i])>>

C7_Witness ==
    /\ opt_js /\ pc = "receive" /\ js_is_header
    /\ Len(cl) > 2
    /\ cl[1][3] = 8 /\ cl[1][2] = 1 /\ cl[1][5] = 16777221
    /\ header["chn1"] = <<"dW", 15000>>

C7_WitnessDuplicate ==
    /\ opt_js /\ pc = "receive" /\ js_is_header
    /\ Cardinality(Type4Positions(cl, 1)) = 2
    /\ header["chn1"] = <<"dW", 7>>

\* C8: what the decoder holds for a datagram depends on that datagram alone: once
\* a later datagram has been handed over, no record of an earlier one is there.
C8_NoStaleRecords ==
    (pc # "receive") => IsPrefix(cl, wire.recs)

\* The getter call whose result ret holds.
LastCall == IF pc = "receive" THEN ReportCalls ELSE step - 1

ClaimUnit(idx) ==
    IF idx \in {1, 2, 21, 22, 41, 42, 61, 62} THEN "W"
    ELSE IF idx \in {31, 51, 71} THEN "A"
    ELSE "V"

ClaimDivisor(idx) == IF idx \in {1, 2, 21, 22, 41, 42, 61, 62} THEN 10 ELSE 1000

\* C9: a getter returns (unit, v divided by the divisor, fraction discarded) for
\* the raw value v of the first valueType 4 record of its index: W and 10 for
\* 1, 2, 21, 22, 41, 42, 61, 62; A and 1000 for 31, 51, 71; V and 1000 for
\* 32, 52, 72.
C9_UnitAndDivisor ==
    (~opt_js /\ ret # <<>>)
        => LET idx == ReportIndex[LastCall]
           IN  ret = <<ClaimUnit(idx),
                       FirstType4Value(wire.recs, idx) \div ClaimDivisor(idx)>>

C9_Witness ==
    /\ ~opt_js
    /\ ret = <<"V", 230>>
    /\ ReportIndex[LastCall] = 32
    /\ FirstType4Value(wire.recs, 32) = 230125

C9_WitnessWatt ==
    /\ ~opt_js
    /\ ret = <<"W", 1500>>
    /\ ReportIndex[LastCall] = 1
    /\ FirstType4Value(wire.recs, 1) = 15000

(***************************************************************************)
(* Re-encoding a header dict: each field read back from its string and     *)
(* packed big-endian in the layout 4s, 2, 2, 4, 2, 2, 2, 2, 4, 4.          *)
(***************************************************************************)
\* The value of a hexadecimal or decimal digit character.
DigitValue(c) == IF c <= 57 THEN c - 48 ELSE IF c <= 70 THEN c - 55 ELSE c - 87

RECURSIVE ParseNumber(_, _)
ParseNumber(s, base) ==
    IF s = <<>> THEN 0
    ELSE base * ParseNumber(SubSeq(s, 1, Len(s) - 1), base) + DigitValue(s[Len(s)])

\* The bytes a bytes literal's body denotes.
RECURSIVE ParseReprBody(_)
ParseReprBody(s) ==
    IF s = <<>> THEN <<>>
    ELSE IF s[1] # 92 THEN <<s[1]>> \o ParseReprBody(Tail(s))
    ELSE IF s[2] = 120
    THEN <<16 * DigitValue(s[3]) + DigitValue(s[4])>> \o ParseReprBody(SubSeq(s, 5, Len(s)))
    ELSE <<CASE s[2] = 116 -> 9 [] s[2] = 110 -> 10 [] s[2] = 114 -> 13 [] OTHER -> s[2]>>
         \o ParseReprBody(SubSeq(s, 3, Len(s)))

\* The bytes of b'...' or b"...".
ParseBytes(s) == ParseReprBody(SubSeq(s, 3, Len(s) - 1))

\* The 28 bytes of the ten fields, in the order identifier, versionTag, tag,
\* group, length, smaNet2, protocolId, systemUnitId, serialNumber, ticker.
EncodeHeader(hd) ==
    ParseBytes(hd["ID"])
    \o Pack(ParseNumber(hd["4"], 16), 2)
    \o Pack(ParseNumber(hd["TAG"], 16), 2)
    \o Pack(ParseNumber(hd["GROUP"], 16), 4)
    \o Pack(hd["LENGTH"], 2)
    \o Pack(ParseNumber(hd["SMANET2"], 16), 2)
    \o Pack(ParseNumber(hd["PROTID"], 16), 2)
    \o Pack(ParseNumber(hd["SUSY"], 10), 2)
    \o Pack(ParseNumber(hd["SERNO"], 10), 4)
    \o Pack(hd["TICKER"], 4)

HeaderKeys ==
    {"ID", "4", "TAG", "GROUP", "LENGTH", "SMANET2", "PROTID", "SUSY", "SERNO", "TICKER"}

\* C10: get_header reads bytes [0,28) as a 4-byte identifier and nine big-endian
\* unsigned fields of widths 2,2,4,2,2,2,2,4,4; re-encoding the ten decoded
\* fields in that layout gives back the 28 bytes.
C10_HeaderRoundTrip ==
    (pc = "extract")
        => /\ DOMAIN header = HeaderKeys
           /\ EncodeHeader(header) = SubSeq(emdat, 1, 28)

C10_Witness ==
    /\ pc = "extract"
    /\ SubSeq(emdat, 1, 4) = <<126, 39, 39, 92>>
    /\ emdat[21] = 127
    /\ header["ID"] = <<98, 34, 126, 39, 39, 92, 92, 34>>
    /\ header["SERNO"] = <<50, 49, 51, 49, 57, 52, 48, 57, 57, 57>>
    /\ header["GROUP"] = <<48, 48, 48, 48, 48, 48, 48, 49>>

=============================================================================
